---------------------------- MODULE Spec2Model ----------------------------
(***************************************************************************)
(* Model of the client-side session manager of the frontend                *)
(* (frontend/src/iam.ts): the in-memory session, the persisted 'auth'      *)
(* entry, the refresh timer, the HTTP calls in flight and the navigation   *)
(* guard.                                                                  *)
(*                                                                         *)
(* JavaScript runs one task at a time: an async function runs              *)
(* synchronously up to its first await on real I/O, and the continuation   *)
(* after an HTTP response runs, with every promise reaction it triggers,   *)
(* before any other timer, response or user event is handled.  Each action *)
(* below is one such task.                                                 *)
(***************************************************************************)
EXTENDS Integers, FiniteSets, Bags, TLC

(***************************************************************************)
(* Bounds of the model.                                                    *)
(***************************************************************************)
\* The clock runs over 0..MaxTime, in ticks.
MaxTime == 3
\* HTTP calls that may be awaiting their response at the same time.
MaxInFlight == 2
\* Timer ids the browser hands out are drawn from 1..MaxTimerId.
MaxTimerId == 3
\* list_request_attempt returns lists of 0..MaxAttempts request attempts.
MaxAttempts == 3

\* subMinutes(accessTokenExpiration, 1): the refresh is due one minute early.
\* The clock ticks twice a minute, so one minute is 2 ticks.
OneMinute == 2

Times == 0..MaxTime
\* The expirations a response or a stored session may carry.  Against a clock
\* over Times, an access token expiring at 1 or 3 is met stale, due within
\* the minute, due in exactly one minute and due later; a refresh token
\* expiring at 2 is met valid and expired, one expiring at 4 is valid
\* throughout; and an access token may outlive its refresh token (3 and 2).
AccessExpirations == {1, 3}
RefreshExpirations == {2, 4}
TimerIds == 1..MaxTimerId
Tokens == {"t1"}
Users == {"u1"}

(***************************************************************************)
(* Values.                                                                 *)
(***************************************************************************)
\* state.value === null
Null == [null |-> TRUE]
\* refreshTimerId === null
NoTimer == 0

\* A timestamp as the server and JSON carry it: an ISO-8601 string.
ISOString(t) == [iso |-> t]
\* new Date(string): the instant the string denotes.
NewDate(s) == s.iso
\* Date.prototype.toJSON, used by JSON.stringify on a Date.
DateToJSON(d) == ISOString(d)

\* The bodies a login or refresh endpoint may answer with.
LoginResponses ==
  { [access_token |-> <<"access", k>>,
     access_token_expiration |-> ISOString(a),
     refresh_token |-> <<"refresh", k>>,
     refresh_token_expiration |-> ISOString(r),
     email |-> <<"email", u>>,
     first_name |-> <<"first", u>>,
     last_name |-> <<"last", u>>] :
       k \in Tokens, a \in AccessExpirations, r \in RefreshExpirations, u \in Users }

\* Mutant: the access token's expiration is copied from the refresh token's.
StateOfResponseMixed(data) ==
  [accessToken |-> data.access_token,
   accessTokenExpiration |-> NewDate(data.refresh_token_expiration),
   refreshToken |-> data.refresh_token,
   refreshTokenExpiration |-> NewDate(data.refresh_token_expiration),
   email |-> data.email,
   firstName |-> data.first_name,
   lastName |-> data.last_name]

\* The State object login() and refresh() build from a response body.
StateOfResponse(data) ==
  [accessToken |-> data.access_token,
   accessTokenExpiration |-> NewDate(data.access_token_expiration),
   refreshToken |-> data.refresh_token,
   refreshTokenExpiration |-> NewDate(data.refresh_token_expiration),
   email |-> data.email,
   firstName |-> data.first_name,
   lastName |-> data.last_name]

(***************************************************************************)
(* localStorage['auth']: no entry, or a string.  A string is the JSON text *)
(* of a State (dates as ISO strings), the JSON text "null", or text that   *)
(* JSON.parse rejects.                                                     *)
(***************************************************************************)
NoEntry == [kind |-> "none"]
JSONNull == [kind |-> "null"]
Unparseable == [kind |-> "corrupt"]

\* JSON.stringify(state)
JSONStringify(st) ==
  [kind |-> "session",
   accessToken |-> st.accessToken,
   accessTokenExpiration |-> DateToJSON(st.accessTokenExpiration),
   refreshToken |-> st.refreshToken,
   refreshTokenExpiration |-> DateToJSON(st.refreshTokenExpiration),
   email |-> st.email,
   firstName |-> st.firstName,
   lastName |-> st.lastName]

\* What a previous run of the program, or anything else, may have left in storage.
StoredValues ==
  {NoEntry, JSONNull, Unparseable}
    \cup { JSONStringify(StateOfResponse(d)) : d \in LoginResponses }

\* The value readStateFromStorage yields when JSON.parse throws.
Threw == [threw |-> TRUE]

ReadStateFromStorage(data, t) ==
  IF data.kind = "none" THEN Null
  ELSE IF data.kind = "corrupt" THEN Threw
  ELSE IF data.kind = "null" THEN Null
  ELSE LET accessTokenExpirationDate == NewDate(data.accessTokenExpiration)
           refreshTokenExpirationDate == NewDate(data.refreshTokenExpiration)
       IN IF refreshTokenExpirationDate <= t
          THEN Null
          ELSE [accessToken |-> data.accessToken,
                accessTokenExpiration |-> accessTokenExpirationDate,
                refreshToken |-> data.refreshToken,
                refreshTokenExpiration |-> refreshTokenExpirationDate,
                email |-> data.email,
                firstName |-> data.firstName,
                lastName |-> data.lastName]


\* getAccessToken(): state.value?.accessToken ?? null
GetAccessToken(st) == IF st = Null THEN Null ELSE st.accessToken

\* Mutant: getRefreshToken hands out the access token.
GetRefreshTokenIsAccess(st) == IF st = Null THEN Null ELSE st.accessToken

\* getRefreshToken(): state.value?.refreshToken ?? null
GetRefreshToken(st) == IF st = Null THEN Null ELSE st.refreshToken

\* The template string `${a} ${b}`.
Template(a, b) == <<a, " ", b>>

\* getUserInfo()
GetUserInfo(st) ==
  IF st # Null
  THEN [email |-> st.email,
        firstName |-> st.firstName,
        lastName |-> st.lastName,
        name |-> Template(st.firstName, st.lastName)]
  ELSE Null

(***************************************************************************)
(* The program's state.                                                    *)
(***************************************************************************)
VARIABLES
  state,           \* state.value: Null or a State
  storage,         \* window.localStorage['auth']
  refreshTimerId,  \* the module variable refreshTimerId
  timers,          \* the browser's pending timeouts: records [id, delay, due]
  requests,        \* HTTP calls awaiting their response: a bag of [kind, origin, root, superseded]
  now,             \* the clock
  phase,           \* "boot" before AuthPlugin.install, then "running" ("crashed" if it threw)
  last,            \* what the task that ran last did
  scenario         \* the e2e run of scenario_1 (e2e-tests/src/main.js), when there is one

vars == <<state, storage, refreshTimerId, timers, requests, now, phase, last, scenario>>

\* The memory a task works on.  `outcome` is how the promise of the task's
\* outermost call stands: "resolved", "pending" once the call chain stops at an
\* HTTP call, "rejected" when an error reaches the caller, "logged" when
\* console.error caught it.  `pushed` is the route handed to router.push.
Mem ==
  [state |-> state, storage |-> storage, refreshTimerId |-> refreshTimerId,
   timers |-> timers, requests |-> requests, outcome |-> "resolved", pushed |-> "none"]

Commit(m) ==
  /\ state' = m.state
  /\ storage' = m.storage
  /\ refreshTimerId' = m.refreshTimerId
  /\ timers' = m.timers
  /\ requests' = m.requests

\* JavaScript truthiness of state.value: null is falsy, an object is truthy.
Truthy(st) == st # Null

\* Mutant: the session is not written through to storage.
WriteStateToStorageSkipped(m, st) == m

WriteStateToStorage(m, st) == [m EXCEPT !.storage = JSONStringify(st)]

RemoveStateFromStorage(m) == [m EXCEPT !.storage = NoEntry]

\* Mutant: clearTimeout cancels nothing.
ClearTimeoutNothing(m, id) == m

\* clearTimeout(id): the pending timeout of that id, if any, is dropped.
ClearTimeout(m, id) == [m EXCEPT !.timers = {tm \in @ : tm.id # id}]

\* The id window.setTimeout returns: one that no pending timeout has and that
\* the program does not hold.
FreshTimerId(m) ==
  CHOOSE id \in TimerIds :
    /\ id \notin {tm.id : tm \in m.timers} \cup {m.refreshTimerId}
    /\ \A other \in TimerIds :
         other \notin {tm.id : tm \in m.timers} \cup {m.refreshTimerId} => id <= other

\* Whether the browser has an id left for one more timeout (a bound of the model).
TimerIdLeft == Cardinality({tm.id : tm \in timers} \cup {refreshTimerId}) < MaxTimerId

\* Mutant: the id of the new timeout is not kept in refreshTimerId.
SetTimeoutIdDropped(m, delay, t) ==
  [m EXCEPT !.timers = @ \cup {[id |-> FreshTimerId(m), delay |-> delay,
                                due |-> t + (IF delay < 0 THEN 0 ELSE delay)]}]

\* window.setTimeout(callback, delay): a negative delay counts as 0.
SetTimeout(m, delay, t) ==
  LET id == FreshTimerId(m)
  IN [m EXCEPT !.timers = @ \cup {[id |-> id, delay |-> delay,
                                   due |-> t + (IF delay < 0 THEN 0 ELSE delay)]},
               !.refreshTimerId = id]

\* http.<client>.post(...): the call is sent and its promise is pending.  The
\* request records whether a login or refresh response has replaced the
\* session since it was sent: not yet.
HttpPost(m, kind, origin, root) ==
  [m EXCEPT !.requests = @ (+) SetToBag({[kind |-> kind, origin |-> origin, root |-> root,
                                          superseded |-> FALSE]}),
            !.outcome = "pending"]

\* A refresh request, once a response has replaced the session it was sent from.
Superseded(r) == IF r.kind = "refresh" THEN [r EXCEPT !.superseded = TRUE] ELSE r

\* The requests in flight once a response has replaced the session.
Supersede(B) ==
  [s \in {Superseded(r) : r \in BagToSet(B)} |->
     CopiesIn(s, B)
       + (IF s.kind = "refresh" /\ s.superseded
          THEN CopiesIn([s EXCEPT !.superseded = FALSE], B)
          ELSE 0)]

\* Mutant: refresh() posts whether or not a session is present.
RefreshBeginUnguarded(m, origin, root) == HttpPost(m, "refresh", origin, root)

\* refresh(), up to its await of the HTTP call.
RefreshBegin(m, origin, root) ==
  IF Truthy(m.state) THEN HttpPost(m, "refresh", origin, root) ELSE m

\* The handler of scheduleAutoRefresh's refresh().catch(...).
RefreshCatchHandler(m) == RemoveStateFromStorage([m EXCEPT !.state = Null])

\* Mutant: the refresh is timed for the expiration itself, not a minute before it.
RefreshInNoLead(st, t) == st.accessTokenExpiration - t

\* differenceInMilliseconds(subMinutes(accessTokenExpiration, 1), new Date())
RefreshIn(st, t) == (st.accessTokenExpiration - OneMinute) - t

\* Mutant: a stale access token is not refreshed at once; a timer is armed as
\* for a fresh one.
ScheduleForStateNoStaleCheck(m, root, t) ==
  IF Truthy(m.state)
  THEN IF m.state.refreshTokenExpiration <= t
       THEN RemoveStateFromStorage([m EXCEPT !.state = Null])
       ELSE SetTimeout(m, RefreshIn(m.state, t), t)
  ELSE m

\* scheduleAutoRefresh after it has cancelled the timer it holds.
ScheduleForState(m, root, t) ==
  IF Truthy(m.state)
  THEN IF m.state.refreshTokenExpiration <= t
       THEN RemoveStateFromStorage([m EXCEPT !.state = Null])
       ELSE IF m.state.accessTokenExpiration <= t
            THEN RefreshBegin(m, "sched", root)
            ELSE SetTimeout(m, RefreshIn(m.state, t), t)
  ELSE m

\* Mutant: the timer held in refreshTimerId is not cancelled before a new one is armed.
ScheduleAutoRefreshNoCancel(m, root, t) == ScheduleForState(m, root, t)

ScheduleAutoRefresh(m, root, t) ==
  ScheduleForState(IF m.refreshTimerId # NoTimer THEN ClearTimeout(m, m.refreshTimerId) ELSE m,
                   root, t)

\* login() and refresh() after their HTTP call has answered with `data`.
SessionFromResponse(m, data, root, t) ==
  LET m1 == [m EXCEPT !.state = StateOfResponse(data), !.requests = Supersede(@)]
  IN IF Truthy(m1.state)
     THEN ScheduleAutoRefresh(WriteStateToStorage(m1, m1.state), root, t)
     ELSE m1

\* Mutant: clearTokens leaves the pending timer alone.
ClearTokensKeepsTimer(m) ==
  [RemoveStateFromStorage([m EXCEPT !.state = Null]) EXCEPT !.pushed = "Login"]

ClearTokens(m) ==
  LET m1 == IF m.refreshTimerId # NoTimer THEN ClearTimeout(m, m.refreshTimerId) ELSE m
  IN [RemoveStateFromStorage([m1 EXCEPT !.state = Null]) EXCEPT !.pushed = "Login"]

\* Mutant: an expired or missing stored session is left in storage.
RehydrateKeepsStorage(m, t) ==
  LET storedState == ReadStateFromStorage(m.storage, t)
  IN IF storedState # Null
     THEN ScheduleAutoRefresh([m EXCEPT !.state = storedState], "install", t)
     ELSE m

\* The body of AuthPlugin.install before the guard is registered.
Rehydrate(m, t) ==
  LET storedState == ReadStateFromStorage(m.storage, t)
  IN IF storedState # Null
     THEN ScheduleAutoRefresh([m EXCEPT !.state = storedState], "install", t)
     ELSE RemoveStateFromStorage(m)

(***************************************************************************)
(* The navigation guard.  A meta flag is "undefined", "true" or "false".   *)
(***************************************************************************)
MetaFlags == {"undefined", "true", "false"}

\* value ?? fallback
Coalesce(value, fallback) == IF value = "undefined" THEN fallback ELSE value

\* Mutant: a flag the route does not set counts as false.
BeforeEachNoDefaults(requiresAuth, redirectIfLoggedIn, st) ==
  IF requiresAuth = "true" /\ st = Null
  THEN "Login"
  ELSE IF requiresAuth # "true" /\ redirectIfLoggedIn = "true" /\ st # Null
       THEN "Home"
       ELSE "allow"

BeforeEach(requiresAuth, redirectIfLoggedIn, st) ==
  IF Coalesce(requiresAuth, "true") = "true" /\ st = Null
  THEN "Login"
  ELSE IF /\ Coalesce(requiresAuth, "true") # "true"
          /\ Coalesce(redirectIfLoggedIn, "true") = "true"
          /\ st # Null
       THEN "Home"
       ELSE "allow"

(***************************************************************************)
(* What a task reports in `last`: the operation, for a refresh the place   *)
(* that called it (origin: "call", "timer" or "sched"; for install, the    *)
(* kind of value found in storage) and for every call chain the outermost  *)
(* call (root), how that outermost call's promise stands afterwards, the   *)
(* route handed to router.push, for a navigation the target's flags and    *)
(* the guard's answer, and for a login or refresh response the body that   *)
(* was processed.                                                          *)
(***************************************************************************)
Event(op, origin, root, settled, pushed) ==
  [op |-> op, origin |-> origin, root |-> root, settled |-> settled, pushed |-> pushed,
   requiresAuth |-> "undefined", redirectIfLoggedIn |-> "undefined", guard |-> "none",
   data |-> Null]

\* The frontend runs in a browser; no e2e run is part of it.
NoScenario == [pc |-> "absent"]

\* The request `r` has been answered: it is no longer in flight.
Answered(m, r) == [m EXCEPT !.requests = @ (-) SetToBag({r})]

InFlight(kind) == {r \in BagToSet(requests) : r.kind = kind}

MayCall == phase = "running" /\ BagCardinality(requests) < MaxInFlight

Init ==
  /\ state = Null
  /\ storage \in StoredValues
  /\ refreshTimerId = NoTimer
  /\ timers = {}
  /\ requests = EmptyBag
  /\ now = 0
  /\ phase = "boot"
  /\ last = Event("init", "none", "none", "none", "none")
  /\ scenario = NoScenario

\* Time passes.
Tick ==
  /\ now < MaxTime
  /\ now' = now + 1
  /\ last' = Event("tick", "none", "none", "none", "none")
  /\ UNCHANGED <<state, storage, refreshTimerId, timers, requests, phase, scenario>>

\* app.use(AuthPlugin): rehydration, then the guard is registered.
Install ==
  /\ phase = "boot"
  /\ IF ReadStateFromStorage(storage, now) = Threw
     THEN /\ phase' = "crashed"
          /\ last' = Event("install", storage.kind, "install", "threw", "none")
          /\ UNCHANGED <<state, storage, refreshTimerId, timers, requests>>
     ELSE LET m == Rehydrate(Mem, now)
          IN /\ Commit(m)
             /\ phase' = "running"
             /\ last' = Event("install", storage.kind, "install", m.outcome, m.pushed)
  /\ UNCHANGED <<now, scenario>>

\* login(email, password) is called: the login endpoint is posted to.
LoginCall ==
  /\ MayCall
  /\ LET m == HttpPost(Mem, "login", "call", "login")
     IN /\ Commit(m)
        /\ last' = Event("loginCall", "call", "login", m.outcome, m.pushed)
  /\ UNCHANGED <<now, phase, scenario>>

\* The login endpoint answers with a body.
LoginResponse ==
  /\ TimerIdLeft
  /\ \E r \in InFlight("login"), data \in LoginResponses :
       \E m \in {SessionFromResponse(Answered(Mem, r), data, r.root, now)} :
          /\ Commit(m)
          /\ last' = [Event("loginResponse", r.origin, r.root, m.outcome, m.pushed)
                        EXCEPT !.data = data]
  /\ UNCHANGED <<now, phase, scenario>>

\* Mutant: a failed login logs the user out.
LoginFailedLogsOut(m) == RemoveStateFromStorage([m EXCEPT !.state = Null, !.outcome = "rejected"])

\* What login() does when its HTTP call fails: nothing, the rejection is the caller's.
LoginFailed(m) == [m EXCEPT !.outcome = "rejected"]

\* The login endpoint fails.
LoginError ==
  /\ \E r \in InFlight("login") :
       LET m == LoginFailed(Answered(Mem, r))
       IN /\ Commit(m)
          /\ last' = Event("loginError", r.origin, r.root, m.outcome, m.pushed)
  /\ UNCHANGED <<now, phase, scenario>>

\* refresh() is called by the application.
RefreshCall ==
  /\ MayCall
  /\ LET m == RefreshBegin(Mem, "call", "refresh")
     IN /\ Commit(m)
        /\ last' = Event("refreshCall", "call", "refresh", m.outcome, m.pushed)
  /\ UNCHANGED <<now, phase, scenario>>

\* The refresh endpoint answers with a body.
RefreshResponse ==
  /\ TimerIdLeft
  /\ \E r \in InFlight("refresh"), data \in LoginResponses :
       \E m \in {SessionFromResponse(Answered(Mem, r), data, r.root, now)} :
          /\ Commit(m)
          /\ last' = [Event("refreshResponse", r.origin, r.root, m.outcome, m.pushed)
                        EXCEPT !.data = data]
  /\ UNCHANGED <<now, phase, scenario>>

\* What the rejection of refresh() leads to, by the place that called it:
\* scheduleAutoRefresh logs out, the timer callback logs the error, and a
\* call by the application leaves the rejection to its caller.
RefreshFailed(m, origin) ==
  IF origin = "sched" THEN RefreshCatchHandler(m)
  ELSE IF origin = "timer" THEN [m EXCEPT !.outcome = "logged"]
  ELSE [m EXCEPT !.outcome = "rejected"]

\* The refresh endpoint fails.
RefreshError ==
  /\ \E r \in InFlight("refresh") :
       LET m == RefreshFailed(Answered(Mem, r), r.origin)
       IN /\ Commit(m)
          /\ last' = Event("refreshError", r.origin, r.root, m.outcome, m.pushed)
  /\ UNCHANGED <<now, phase, scenario>>

\* logout(), up to its await of the HTTP call.
LogoutBegin(m) ==
  IF Truthy(m.state) THEN HttpPost(m, "logout", "call", "logout") ELSE m

\* logout() is called.
LogoutCall ==
  /\ MayCall
  /\ LET m == LogoutBegin(Mem)
     IN /\ Commit(m)
        /\ last' = Event("logoutCall", "call", "logout", m.outcome, m.pushed)
  /\ UNCHANGED <<now, phase, scenario>>

\* logout() after its HTTP call: the catch block only logs, clearTokens() follows.
LogoutFinish(m, ok) == ClearTokens(m)

\* The logout endpoint answers.
LogoutResponse ==
  /\ \E r \in InFlight("logout") :
       LET m == LogoutFinish(Answered(Mem, r), TRUE)
       IN /\ Commit(m)
          /\ last' = Event("logoutResponse", r.origin, r.root, m.outcome, m.pushed)
  /\ UNCHANGED <<now, phase, scenario>>

\* The logout endpoint fails.
LogoutError ==
  /\ \E r \in InFlight("logout") :
       LET m == LogoutFinish(Answered(Mem, r), FALSE)
       IN /\ Commit(m)
          /\ last' = Event("logoutError", r.origin, r.root, m.outcome, m.pushed)
  /\ UNCHANGED <<now, phase, scenario>>

\* The callback scheduleAutoRefresh hands to setTimeout.
TimerCallback(m) == RefreshBegin(m, "timer", "timer")

\* A pending timeout that is due fires (the browser may fire it late, never early).
TimerFire ==
  /\ BagCardinality(requests) < MaxInFlight
  /\ \E tm \in timers :
       /\ tm.due <= now
       /\ LET m == TimerCallback([Mem EXCEPT !.timers = @ \ {tm}])
          IN /\ Commit(m)
             /\ last' = Event("timerFire", "timer", "timer", m.outcome, m.pushed)
  /\ UNCHANGED <<now, phase, scenario>>

\* The router asks the guard about a navigation to a route with these flags.
Navigate ==
  /\ phase = "running"
  /\ \E requiresAuth \in MetaFlags, redirectIfLoggedIn \in MetaFlags :
       last' = [Event("navigate", "none", "none", "none", "none") EXCEPT
                  !.requiresAuth = requiresAuth,
                  !.redirectIfLoggedIn = redirectIfLoggedIn,
                  !.guard = BeforeEach(requiresAuth, redirectIfLoggedIn, state)]
  /\ UNCHANGED <<state, storage, refreshTimerId, timers, requests, now, phase, scenario>>

Next ==
  \/ Tick
  \/ Install
  \/ LoginCall
  \/ LoginResponse
  \/ LoginError
  \/ RefreshCall
  \/ RefreshResponse
  \/ RefreshError
  \/ LogoutCall
  \/ LogoutResponse
  \/ LogoutError
  \/ TimerFire

\* The session manager without the guard, which reads the session and changes nothing.
Spec == Init /\ [][Next]_vars

\* The session manager with navigations passing the guard.
NextNav ==
  \/ Next
  \/ Navigate

SpecNav == Init /\ [][NextNav]_vars

\* The plugin is installed a second time at startup, right after the first:
\* the rehydration runs again on what the first run left.
InstallAgain ==
  /\ phase = "running"
  /\ last.op = "install"
  /\ TimerIdLeft
  /\ LET m == Rehydrate(Mem, now)
     IN /\ Commit(m)
        /\ last' = Event("installAgain", storage.kind, "install", m.outcome, m.pushed)
  /\ UNCHANGED <<now, phase, scenario>>

\* The session manager with the rehydration run twice at startup.
NextRehydrate ==
  \/ Next
  \/ InstallAgain

SpecRehydrate == Init /\ [][NextRehydrate]_vars

\* The outermost calls a pending HTTP call can belong to.
Roots == {"install", "login", "refresh", "timer", "logout"}

\* A pending HTTP call made on behalf of the call `root` returns, with a body
\* or with a failure, and the code awaiting it runs on.
HttpReturns(root) ==
  /\ \E r \in BagToSet(requests) : r.root = root
  /\ \/ LoginResponse
     \/ LoginError
     \/ RefreshResponse
     \/ RefreshError
     \/ LogoutResponse
     \/ LogoutError
  /\ last'.root = root

\* The session manager against a server that answers every HTTP call.
SpecLive == Init /\ [][Next]_vars /\ \A root \in Roots : WF_vars(HttpReturns(root))

(***************************************************************************)
(* The e2e run (e2e-tests/src/main.js, scenario_1): a sequence of calls to *)
(* the API helpers, each result checked, with a catch that logs and        *)
(* re-throws and a finally that deletes the test application.  The helpers *)
(* are HTTP calls to the API under test; what they return is an input.     *)
(***************************************************************************)
Undefined == [undefined |-> TRUE]

\* JavaScript truthiness of what a helper returns: null and undefined are
\* falsy; an id, an object and an array, empty or not, are truthy.
JSTruthy(value) == value \notin {Null, Undefined}

\* isNotNull(value): value && value !== null
IsNotNull(value) == JSTruthy(value) /\ value # Null

ApplicationIds == {[id |-> "app1"], [id |-> "app2"]}
Created == [created |-> TRUE]
\* What create_application returns.
ApplicationResults == {Null, Undefined} \cup ApplicationIds
\* What create_event_type, create_subscription and send_event return.
HelperResults == {Null, Undefined, Created}
\* What list_request_attempt returns: an array, of which the length matters.
ListResults == {Null, Undefined} \cup {[length |-> n] : n \in 0..MaxAttempts}

\* The helper calls of the try block, in program order.
Order(label) ==
  CASE label = "create_application" -> 1
    [] label = "create_event_type_1" -> 2
    [] label = "create_event_type_2" -> 3
    [] label = "create_subscription_1" -> 4
    [] label = "create_subscription_2" -> 5
    [] label = "send_event_1" -> 6
    [] label = "send_event_2" -> 7
    [] label = "send_event_3" -> 8
    [] label = "list_request_attempt_1" -> 9
    [] label = "list_request_attempt_2" -> 10
    [] label = "list_request_attempt_3" -> 11

StepLabels ==
  {"create_application", "create_event_type_1", "create_event_type_2",
   "create_subscription_1", "create_subscription_2",
   "send_event_1", "send_event_2", "send_event_3",
   "list_request_attempt_1", "list_request_attempt_2", "list_request_attempt_3"}

\* The statement after the check of step `label`: the next helper call, or
\* the finally block after the last one.
After(label) ==
  IF \E l \in StepLabels : Order(l) = Order(label) + 1
  THEN CHOOSE l \in StepLabels : Order(l) = Order(label) + 1
  ELSE "finally"

\* The request attempts the run expects for events 1, 2 and 3.
ExpectedAttempts(label) ==
  CASE label = "list_request_attempt_1" -> 2
    [] label = "list_request_attempt_2" -> 1
    [] label = "list_request_attempt_3" -> 0

\* scenario_1 is entered: let application_id = null.
ScenarioStart(keepTestApplication) ==
  [pc |-> "create_application",
   keepTestApplication |-> keepTestApplication,
   application_id |-> Null,
   returned |-> {},          \* <<label, value>> for each helper call made
   error |-> "none",         \* the error thrown in the try block
   logged |-> 0,             \* calls of console.error
   deleted |-> 0,            \* calls of delete_application
   deletedIds |-> {}]        \* the ids they were called with

\* The helper of step `label` was called and returned `value`.
Returned(r, label, value) == [r EXCEPT !.returned = @ \cup {<<label, value>>}]

\* An error is thrown in the try block: the catch block logs its message and
\* throws it again, which leaves the finally block to run.
Thrown(r, kind) == [r EXCEPT !.error = kind, !.logged = @ + 1, !.pc = "finally"]

\* A helper result and its check: if (!isNotNull(x)) throw new Error(...)
Checked(r, label, value) ==
  IF ~IsNotNull(value)
  THEN Thrown(Returned(r, label, value), "Error")
  ELSE [Returned(r, label, value) EXCEPT !.pc = After(label)]

\* application_id = create_application(...), and its check.
CreatedApplication(r, value) ==
  Checked([r EXCEPT !.application_id = value], "create_application", value)

\* A list of request attempts and its check.  The message of the Error reads
\* x.length, which throws a TypeError of its own when x is null or undefined.
Listed(r, label, value) ==
  IF ~IsNotNull(value) \/ value.length # ExpectedAttempts(label)
  THEN Thrown(Returned(r, label, value),
              IF value \in {Null, Undefined} THEN "TypeError" ELSE "Error")
  ELSE [Returned(r, label, value) EXCEPT !.pc = After(label)]

\* Mutant: the application is only deleted when the run succeeded.
FinallyOnSuccessOnly(r) ==
  LET r1 == IF JSTruthy(r.application_id) /\ ~r.keepTestApplication /\ r.error = "none"
            THEN [r EXCEPT !.deleted = @ + 1, !.deletedIds = @ \cup {r.application_id}]
            ELSE r
  IN [r1 EXCEPT !.pc = IF r.error = "none" THEN "returned" ELSE "thrown"]

\* The finally block, after which scenario_1 returns or the error of the try
\* block reaches the caller.
Finally(r) ==
  LET r1 == IF JSTruthy(r.application_id) /\ ~r.keepTestApplication
            THEN [r EXCEPT !.deleted = @ + 1, !.deletedIds = @ \cup {r.application_id}]
            ELSE r
  IN [r1 EXCEPT !.pc = IF r.error = "none" THEN "returned" ELSE "thrown"]

\* The frontend is no part of an e2e run.
Frontend == <<state, storage, refreshTimerId, timers, requests, now, phase, last>>

InitScenario ==
  /\ state = Null
  /\ storage = NoEntry
  /\ refreshTimerId = NoTimer
  /\ timers = {}
  /\ requests = EmptyBag
  /\ now = 0
  /\ phase = "boot"
  /\ last = Event("init", "none", "none", "none", "none")
  /\ scenario \in {ScenarioStart(keepTestApplication) : keepTestApplication \in BOOLEAN}

CreateApplication ==
  /\ scenario.pc = "create_application"
  /\ \E value \in ApplicationResults : scenario' = CreatedApplication(scenario, value)
  /\ UNCHANGED Frontend

CreateEventType ==
  /\ scenario.pc \in {"create_event_type_1", "create_event_type_2"}
  /\ \E value \in HelperResults : scenario' = Checked(scenario, scenario.pc, value)
  /\ UNCHANGED Frontend

CreateSubscription ==
  /\ scenario.pc \in {"create_subscription_1", "create_subscription_2"}
  /\ \E value \in HelperResults : scenario' = Checked(scenario, scenario.pc, value)
  /\ UNCHANGED Frontend

SendEvent ==
  /\ scenario.pc \in {"send_event_1", "send_event_2", "send_event_3"}
  /\ \E value \in HelperResults : scenario' = Checked(scenario, scenario.pc, value)
  /\ UNCHANGED Frontend

ListRequestAttempt ==
  /\ scenario.pc \in {"list_request_attempt_1", "list_request_attempt_2",
                      "list_request_attempt_3"}
  /\ \E value \in ListResults : scenario' = Listed(scenario, scenario.pc, value)
  /\ UNCHANGED Frontend

DeleteApplication ==
  /\ scenario.pc = "finally"
  /\ scenario' = Finally(scenario)
  /\ UNCHANGED Frontend

NextScenario ==
  \/ CreateApplication
  \/ CreateEventType
  \/ CreateSubscription
  \/ SendEvent
  \/ ListRequestAttempt
  \/ DeleteApplication

\* One run of scenario_1.
SpecScenario == InitScenario /\ [][NextScenario]_vars

(***************************************************************************)
(* Claims.                                                                 *)
(***************************************************************************)
Responses == {"loginResponse", "refreshResponse"}
LogoutEnds == {"logoutResponse", "logoutError"}

\* C1: whenever a refresh() attempt fails while the session is present,
\* whichever place called refresh(), the session becomes absent and the
\* 'auth' entry is removed, and the failing task starts no further refresh.
C1_RefreshFailureLogsOut ==
  [][(last'.op = "refreshError" /\ state # Null)
       => /\ state' = Null
          /\ storage' = NoEntry
          /\ BagCardinality(requests') < BagCardinality(requests)]_vars

\* C2: logout() called with the session present ends, whether its HTTP call
\* succeeded or failed, with the session absent, the 'auth' entry removed,
\* no refresh timer pending and a navigation to Login requested, and its
\* promise resolved rather than rejected.
C2_LogoutUnconditional ==
  last.op \in LogoutEnds
    => /\ state = Null
       /\ storage = NoEntry
       /\ timers = {}
       /\ last.pushed = "Login"
       /\ last.settled = "resolved"

\* C2's case: the logout HTTP call failed after a timer had been armed.
C2_Witness ==
  /\ last.op = "logoutError"
  /\ refreshTimerId # NoTimer
  /\ state = Null

\* C3: every step leaves at most one timer pending, and a step that arms a
\* timer leaves that timer alone pending, held in refreshTimerId: the timer
\* armed before it is cancelled in the same step.
C3_AtMostOneTimer ==
  [][/\ Cardinality(timers') <= 1
     /\ (timers' \ timers # {}
           => /\ timers' \ timers = timers'
              /\ \A tm \in timers' : tm.id = refreshTimerId')]_vars

\* C3's case: a second timer has been armed by a response, and it is the
\* only one pending.
C3_Witness ==
  /\ last.op \in Responses
  /\ refreshTimerId = 2
  /\ Cardinality(timers) = 1
  /\ \A tm \in timers : tm.id = 2

\* C4: the guard redirects to Login when requiresAuth (true unless set) holds
\* and the session is absent, to Home when requiresAuth is false,
\* redirectIfLoggedIn (true unless set) holds and the session is present,
\* and allows every other navigation.
C4_GuardTable ==
  last.op = "navigate"
    => LET auth == last.requiresAuth \in {"true", "undefined"}
           redirect == last.redirectIfLoggedIn \in {"true", "undefined"}
       IN /\ (auth /\ state = Null) => last.guard = "Login"
          /\ (~auth /\ redirect /\ state # Null) => last.guard = "Home"
          /\ ~(auth /\ state = Null) /\ ~(~auth /\ redirect /\ state # Null)
               => last.guard = "allow"

\* C4's case: a route that sets neither flag is navigated to with the session
\* absent, and the guard redirects to Login.
C4_Witness ==
  /\ last.op = "navigate"
  /\ last.requiresAuth = "undefined"
  /\ last.redirectIfLoggedIn = "undefined"
  /\ state = Null
  /\ last.guard = "Login"

\* C5: a login() whose HTTP call fails rejects to its caller and leaves the
\* session, the 'auth' entry, the pending timer and refreshTimerId as they were.
C5_LoginFailureChangesNothing ==
  [][last'.op = "loginError"
       => /\ last'.settled = "rejected"
          /\ UNCHANGED <<state, storage, timers, refreshTimerId>>]_vars

\* C5's case: a login failed while a session was present and a timer pending.
C5_Witness ==
  /\ last.op = "loginError"
  /\ state # Null
  /\ timers # {}

\* C6: once rehydration has run, storage holds a session exactly when the
\* in-memory session is present, and then the one whose fields, with the
\* dates read back from their ISO strings, are those of the in-memory session.
C6_StorageSynchronized ==
  phase # "boot"
    => /\ state # Null <=> storage.kind = "session"
       /\ state = Null /\ phase = "running" => storage = NoEntry
       /\ state # Null
            => /\ storage.accessToken = state.accessToken
               /\ NewDate(storage.accessTokenExpiration) = state.accessTokenExpiration
               /\ storage.refreshToken = state.refreshToken
               /\ NewDate(storage.refreshTokenExpiration) = state.refreshTokenExpiration
               /\ storage.email = state.email
               /\ storage.firstName = state.firstName
               /\ storage.lastName = state.lastName

\* C6's case: a refresh response has replaced a session and storage follows it.
C6_Witness ==
  /\ last.op = "refreshResponse"
  /\ state # Null
  /\ storage = JSONStringify(state)

\* C7: when the refresh started by the timer has failed, a navigation that
\* comes next, to a route with requiresAuth true, is redirected to Login.
C7_SilentFailureRedirects ==
  [][(/\ last.op = "refreshError"
      /\ last.origin = "timer"
      /\ last'.op = "navigate"
      /\ last'.requiresAuth = "true")
       => last'.guard = "Login"]_vars

\* A stored session, by its expirations read at time t.
StoredSession == storage.kind = "session"
StoredRefreshExpired(t) == NewDate(storage.refreshTokenExpiration) <= t
StoredAccessExpired(t) == NewDate(storage.accessTokenExpiration) <= t

\* C8: rehydration that finds no stored session, or one whose
\* refreshTokenExpiration is at or before now, leaves the session absent and
\* the 'auth' entry empty, arms no timer and sends no HTTP call.
C8_RehydrateExpired ==
  [][(/\ last'.op = "install"
      /\ \/ storage = NoEntry
         \/ storage = JSONNull
         \/ StoredSession /\ StoredRefreshExpired(now))
       => /\ state' = Null
          /\ storage' = NoEntry
          /\ timers' = {}
          /\ refreshTimerId' = NoTimer
          /\ requests' = EmptyBag]_vars

\* C8's case: rehydration found a stored session, expired, and removed it.
C8_Witness ==
  /\ last.op = "install"
  /\ last.origin = "session"
  /\ state = Null
  /\ storage = NoEntry

\* C9: rehydration that finds a stored session with accessTokenExpiration at
\* or before now and refreshTokenExpiration after now makes the session
\* present and sends exactly one refresh request, with no timer armed; and
\* when a refresh sent that way fails, the session becomes absent and the
\* 'auth' entry is removed.
C9_RehydrateStaleAccess ==
  [][/\ (/\ last'.op = "install"
         /\ StoredSession
         /\ StoredAccessExpired(now)
         /\ ~StoredRefreshExpired(now))
          => /\ state' # Null
             /\ JSONStringify(state') = storage
             /\ requests' = SetToBag({[kind |-> "refresh", origin |-> "sched",
                                        root |-> "install", superseded |-> FALSE]})
             /\ timers' = {}
             /\ refreshTimerId' = NoTimer
     /\ (/\ last'.op = "refreshError"
         /\ last'.origin = "sched"
         /\ last'.root = "install")
          => /\ state' = Null
             /\ storage' = NoEntry]_vars

\* C9's case: the refresh that rehydration sent at once has failed.
C9_Witness ==
  /\ last.op = "refreshError"
  /\ last.origin = "sched"
  /\ last.root = "install"
  /\ state = Null
  /\ refreshTimerId = NoTimer

\* A step into LoggedIn has just been taken: a login or refresh response, or
\* a rehydration, that left the session present.
EnteredLoggedIn ==
  /\ last.op \in Responses \cup {"install"}
  /\ state # Null

\* C10 as stated: after every step into LoggedIn exactly one timer is pending.
C10_ExactlyOneTimer ==
  EnteredLoggedIn => Cardinality(timers) = 1

\* C10 as amended: after every step into LoggedIn, exactly one timer is
\* pending, the one held in refreshTimerId, when the session's
\* accessTokenExpiration is after now; when it is at or before now no timer
\* is pending and the step has sent a refresh request instead.
C10_OneTimerUnlessStale ==
  EnteredLoggedIn
    => IF state.accessTokenExpiration > now
       THEN /\ Cardinality(timers) = 1
            /\ \A tm \in timers : tm.id = refreshTimerId
            /\ last.settled = "resolved"
       ELSE /\ timers = {}
            /\ last.settled = "pending"
            /\ \E r \in BagToSet(requests) :
                 r.kind = "refresh" /\ r.origin = "sched" /\ r.root = last.root

\* C10's case: a refresh response has replaced the pending timer by a new one.
C10_Witness ==
  /\ last.op = "refreshResponse"
  /\ state # Null
  /\ state.accessTokenExpiration > now
  /\ refreshTimerId = 2
  /\ timers # {}

\* C11: an unparseable 'auth' value found at startup counts as an absent
\* session: install completes, with the session absent and the guard
\* registered, rather than throwing.
C11_CorruptStorageIsAbsent ==
  (last.op = "install" /\ last.origin = "corrupt")
    => /\ phase = "running"
       /\ last.settled # "threw"
       /\ state = Null

\* The refresh requests in flight sent since a response last replaced the
\* session: they were all sent from the same session.
RefreshesOfOneSession ==
  {r \in BagToSet(requests) : r.kind = "refresh" /\ ~r.superseded}

\* How many requests of the set `rs` are in flight, each with its multiplicity.
RECURSIVE CountInFlight(_)
CountInFlight(rs) ==
  IF rs = {} THEN 0
  ELSE LET r == CHOOSE x \in rs : TRUE
       IN CopiesIn(r, requests) + CountInFlight(rs \ {r})

\* C12: at most one refresh request is in flight for the same session: no
\* refresh is sent while another one sent from the same session awaits its
\* answer.
C12_OneRefreshPerSession == CountInFlight(RefreshesOfOneSession) <= 1

\* C13: a step into LoggedIn that finds both expirations after now arms the
\* timer with delay = (accessTokenExpiration - 1 minute) - now; the timer is
\* due that long from now, at once when the delay is negative, and never
\* later than accessTokenExpiration.
C13_RefreshDelay ==
  (EnteredLoggedIn /\ state.accessTokenExpiration > now)
    => /\ state.refreshTokenExpiration > now
       /\ \E tm \in timers :
            /\ timers = {tm}
            /\ tm.delay = (state.accessTokenExpiration - OneMinute) - now
            /\ tm.delay >= 0 => tm.due = state.accessTokenExpiration - OneMinute
            /\ tm.delay < 0 => tm.due = now
            /\ tm.due <= state.accessTokenExpiration

\* C13's case: a login was answered with an access token that expires more
\* than a minute from now, and the timer is due a minute before it expires.
C13_Witness ==
  /\ last.op = "loginResponse"
  /\ state # Null
  /\ \E tm \in timers : tm.delay > 0 /\ tm.due = state.accessTokenExpiration - OneMinute

StateFields ==
  {"accessToken", "accessTokenExpiration", "refreshToken", "refreshTokenExpiration",
   "email", "firstName", "lastName"}

\* The session `st` holds the fields of the response body `d`, all seven.
FromOneResponse(st, d) ==
  /\ st.accessToken = d.access_token
  /\ st.accessTokenExpiration = NewDate(d.access_token_expiration)
  /\ st.refreshToken = d.refresh_token
  /\ st.refreshTokenExpiration = NewDate(d.refresh_token_expiration)
  /\ st.email = d.email
  /\ st.firstName = d.first_name
  /\ st.lastName = d.last_name

\* The session `st` holds the fields of the stored value `v`, all seven.
FromStored(st, v) ==
  /\ v.kind = "session"
  /\ st.accessToken = v.accessToken
  /\ st.accessTokenExpiration = NewDate(v.accessTokenExpiration)
  /\ st.refreshToken = v.refreshToken
  /\ st.refreshTokenExpiration = NewDate(v.refreshTokenExpiration)
  /\ st.email = v.email
  /\ st.firstName = v.firstName
  /\ st.lastName = v.lastName

\* C14: the session is absent or has all seven fields, and a step changes
\* it only as a whole: a step that leaves a session present either left it
\* as it was, or was a login or refresh response and took every field from
\* the body it processed, or was the rehydration and took every field from
\* the stored session.  So a present session is always that of the response
\* processed last, also with login and refresh calls in flight together.
C14_SessionFromOneResponse ==
  [][state' # Null
       => /\ DOMAIN state' = StateFields
          /\ \/ state' = state
             \/ last'.op \in Responses /\ FromOneResponse(state', last'.data)
             \/ last'.op = "install" /\ FromStored(state', storage)]_vars

\* C14's case: a login response has replaced the session while a refresh
\* sent from the session it replaced is still in flight.
C14_Witness ==
  /\ last.op = "loginResponse"
  /\ state # Null
  /\ FromOneResponse(state, last.data)
  /\ \E r \in BagToSet(requests) :
       r.kind = "refresh" /\ r.superseded

\* C15: the rehydration run a second time on the same stored session leaves
\* the in-memory session and the 'auth' entry as the first run left them,
\* and at most one timer pending.
C15_RehydrateIdempotent ==
  [][last'.op = "installAgain"
       => /\ state' = state
          /\ storage' = storage
          /\ Cardinality(timers') <= 1
          /\ \A tm \in timers' : tm.id = refreshTimerId']_vars

\* C15's case: the second run found the session the first run had loaded and
\* re-armed the timer.
C15_Witness ==
  /\ last.op = "installAgain"
  /\ last.origin = "session"
  /\ state # Null
  /\ refreshTimerId = 2
  /\ Cardinality(timers) = 1

\* C16: getAccessToken, getRefreshToken and getUserInfo yield null exactly
\* when the session is absent, and otherwise the session's access token,
\* refresh token and identity, with name = firstName, one space, lastName.
C16_Accessors ==
  /\ (GetAccessToken(state) = Null) <=> (state = Null)
  /\ (GetRefreshToken(state) = Null) <=> (state = Null)
  /\ (GetUserInfo(state) = Null) <=> (state = Null)
  /\ state # Null
       => /\ GetAccessToken(state) = state.accessToken
          /\ GetRefreshToken(state) = state.refreshToken
          /\ GetUserInfo(state).email = state.email
          /\ GetUserInfo(state).firstName = state.firstName
          /\ GetUserInfo(state).lastName = state.lastName
          /\ GetUserInfo(state).name = <<state.firstName, " ", state.lastName>>

\* C16's case: a session obtained by a refresh is read through the accessors.
C16_Witness ==
  /\ last.op = "refreshResponse"
  /\ state # Null
  /\ GetAccessToken(state) = <<"access", "t1">>
  /\ GetRefreshToken(state) = <<"refresh", "t1">>
  /\ GetUserInfo(state).name = << <<"first", "u1">>, " ", <<"last", "u1">> >>

\* C17: once logout() has completed, a refresh response arriving for a
\* request started before it does not re-create the session, re-write the
\* 'auth' entry or arm a timer.
C17_LateRefreshIgnored ==
  [][(last.op \in LogoutEnds /\ state = Null /\ last'.op = "refreshResponse")
       => /\ state' = Null
          /\ storage' = NoEntry
          /\ timers' = {}]_vars

\* C18: whenever the session is absent, no refresh timer is pending.
C18_NoTimerWhenAbsent == state = Null => timers = {}

\* C19: the failure of a refresh request leaves alone a session put in place
\* by a response processed after that request was issued.
C19_FailureSparesNewerSession ==
  [][\A r \in BagToSet(requests) :
       (/\ r.kind = "refresh"
        /\ last'.op = "refreshError"
        /\ requests' = requests (-) SetToBag({r})
        /\ r.superseded
        /\ state # Null)
         => state' = state]_vars

\* C20: refresh() called or fired, and logout() called, while the session is
\* absent send no HTTP request, leave the session absent and the 'auth' entry
\* untouched, arm no timer and request no navigation.
C20_NoOpWhenAbsent ==
  [][(last'.op \in {"refreshCall", "timerFire", "logoutCall"} /\ state = Null)
       => /\ requests' = requests
          /\ state' = Null
          /\ storage' = storage
          /\ timers' \subseteq timers
          /\ refreshTimerId' = refreshTimerId
          /\ last'.pushed = "none"
          /\ last'.settled = "resolved"]_vars

\* C20's case: a timer left pending fired while the session was absent, and
\* nothing was sent.
C20_Witness ==
  /\ last.op = "timerFire"
  /\ state = Null
  /\ storage = NoEntry
  /\ requests = EmptyBag
  /\ last.settled = "resolved"

\* An HTTP call of a login() that has not settled is in flight: the login
\* request itself or a refresh sent by the scheduleAutoRefresh it awaits.
LoginPending == \E r \in BagToSet(requests) : r.root = "login"

\* C21: every login() call eventually settles when every HTTP call returns:
\* again and again either login() has just been called anew or no call made
\* on behalf of a login() is in flight, so the chain login ->
\* scheduleAutoRefresh -> refresh -> scheduleAutoRefresh of a login() does
\* not go on for ever.
C21_LoginSettles == []<>(last.op = "loginCall" \/ ~LoginPending)

\* A helper result the run must fail on: null, or a list whose length is not
\* the expected one.
Failing(label, value) ==
  \/ value = Null
  \/ /\ label \in {"list_request_attempt_1", "list_request_attempt_2",
                   "list_request_attempt_3"}
     /\ value \notin {Null, Undefined}
     /\ value.length # ExpectedAttempts(label)

FailedSteps == {p \in scenario.returned : Failing(p[1], p[2])}

ScenarioEnded == scenario.pc \in {"returned", "thrown"}

\* C22: in a run of scenario_1, when create_application returned an id and
\* keepTestApplication is not set, delete_application is called exactly once,
\* with that id, at the end of the run and not before, whether the run
\* succeeded or failed; a step returning null, or a list of request attempts
\* whose length is not 2, 1, 0 for events 1, 2, 3, is the last step made, and
\* its error is logged and thrown to the caller.
C22_ScenarioCleansUp ==
  /\ ~ScenarioEnded => scenario.deleted = 0
  /\ (ScenarioEnded /\ scenario.application_id \in ApplicationIds
        /\ ~scenario.keepTestApplication)
       => scenario.deleted = 1 /\ scenario.deletedIds = {scenario.application_id}
  /\ (ScenarioEnded /\ (scenario.application_id \notin ApplicationIds
                          \/ scenario.keepTestApplication))
       => scenario.deleted = 0
  /\ \A p \in FailedSteps :
       /\ scenario.pc \in {"finally", "thrown"}
       /\ scenario.error # "none"
       /\ scenario.logged = 1
       /\ \A q \in scenario.returned : Order(q[1]) <= Order(p[1])
  /\ scenario.pc = "returned"
       => /\ FailedSteps = {}
          /\ scenario.error = "none"
          /\ {q[1] : q \in scenario.returned} = StepLabels

\* C22's case: list_request_attempt returned null for event 2, reading its
\* length threw, and the application was deleted on the way out.
C22_Witness ==
  /\ scenario.pc = "thrown"
  /\ <<"list_request_attempt_2", Null>> \in scenario.returned
  /\ scenario.error = "TypeError"
  /\ scenario.deleted = 1
  /\ scenario.deletedIds = {scenario.application_id}

=============================================================================
